---- MODULE Spec2Model ----
(***************************************************************************)
(* The reference-building workflow of 01-Create_References.ipynb: list the *)
(* source files, build one reference dictionary per file with gen_ref on a *)
(* pool of Dask workers, hand the list of dictionaries to MultiZarrToZarr   *)
(* and write the combined reference to ./combined.json.                    *)
(*                                                                         *)
(* The notebook is the whole program of this repository.  What happens     *)
(* inside SingleHdf5ToZarr, MultiZarrToZarr, fsspec and dask is library     *)
(* code the notebook only calls; a call is modelled by the arguments the    *)
(* notebook passes and by the value the notebook goes on to use.           *)
(***************************************************************************)
EXTENDS Integers, Sequences, FiniteSets, TLC

\* Number of objects the bucket listing may hold (24 in the tutorial's run).
MaxFiles == 3

\* Number of Dask workers ("as many workers as are available").
NWorkers == 2

\* inline_threshold of the single-reference example.
ExampleInlineThreshold == 100

\* inline_threshold gen_ref passes to SingleHdf5ToZarr.
GenRefInlineThreshold == 300

\* inline_threshold the notebook passes to MultiZarrToZarr.
CombineInlineThreshold == 0

VARIABLES
    pc,         \* the notebook cell that runs next
    bucket,     \* keys of the .nc objects under the globbed prefix
    bad,        \* keys of the objects on which SingleHdf5ToZarr raises
    flist,      \* the notebook's flist
    reference,  \* the single example reference
    bag,        \* the partitions of the Dask bag
    task,       \* per partition: "pending", "running", "done" or "error"
    worker,     \* per worker: the partition it is running, 0 when idle
    results,    \* per partition: the list its task returned
    finished,   \* partitions in the order their tasks completed
    dicts,      \* the notebook's dicts
    mzz,        \* the MultiZarrToZarr object
    combined    \* the content written to ./combined.json

vars == <<pc, bucket, bad, flist, reference, bag, task, worker, results, finished,
          dicts, mzz, combined>>

None == [none |-> TRUE]

\* The keys of the listing, in the sorted order fs.glob returns them.
RECURSIVE SortedSeq(_)
SortedSeq(S) ==
    IF S = {} THEN <<>>
    ELSE LET m == CHOOSE x \in S : \A y \in S : x <= y
         IN  <<m>> \o SortedSeq(S \ {m})

\* fs.glob("s3://noaa-goes16/ABI-L2-SSTF/2020/210/*/*.nc"): the matching
\* keys, sorted, without the protocol prefix.
Glob(keys) == [i \in 1..Cardinality(keys) |-> [prefix |-> <<>>, key |-> SortedSeq(keys)[i]]]

\* 's3://' + f
PrependS3(f) == [f EXCEPT !.prefix = <<"s3://">> \o f.prefix]

\* SingleHdf5ToZarr(infile, url, inline_threshold=thr).translate(), with infile
\* opened from `opened`: the dictionary's templates.u is the url it was given.
SingleHdf5ToZarrTranslate(opened, url, thr) ==
    [templates |-> [u |-> url], infile |-> opened, inline_threshold |-> thr]

\* Whether opening and translating f raises: gen_ref catches nothing, so the
\* exception leaves gen_ref.
Raises(f) == f.key \in bad

\* def gen_ref(f)
gen_ref(f) == SingleHdf5ToZarrTranslate(f, f, GenRefInlineThreshold)

\* ceil(a / b) for b > 0
CeilDiv(a, b) == (a + b - 1) \div b

\* A slicing whose partitions run one element into the next partition.
from_sequence_overlap(seq, n) ==
    LET size == CeilDiv(Len(seq), n)
        count == CeilDiv(Len(seq), size)
    IN  [p \in 1..count |->
            SubSeq(seq, (p - 1) * size + 1,
                   IF p * size + 1 < Len(seq) THEN p * size + 1 ELSE Len(seq))]

\* db.from_sequence(seq, npartitions=n): consecutive slices of
\* ceil(len(seq) / n) elements each.
from_sequence(seq, n) ==
    LET size == CeilDiv(Len(seq), n)
        count == CeilDiv(Len(seq), size)
    IN  [p \in 1..count |->
            SubSeq(seq, (p - 1) * size + 1,
                   IF p * size < Len(seq) THEN p * size ELSE Len(seq))]

\* .map(gen_ref) on one partition
MapPartition(part) == [k \in 1..Len(part) |-> gen_ref(part[k])]

RECURSIVE Concat(_, _)
Concat(parts, n) == IF n = 0 THEN <<>> ELSE Concat(parts, n - 1) \o parts[n]

\* A collection that hands the partitions back in the order they completed.
CollectByCompletion(res, order) ==
    Concat([k \in 1..Len(order) |-> res[order[k]]], Len(order))

\* bag.compute(): the partitions' results concatenated in partition order.
Collect(res, order) == Concat(res, Len(res))

\* MultiZarrToZarr(dicts, remote_protocol='s3', remote_options={'anon':True},
\*                 concat_dims='t', inline_threshold=0)
MultiZarrToZarr(path) ==
    [path |-> path, remote_protocol |-> "s3", remote_options |-> [anon |-> TRUE],
     concat_dims |-> <<"t">>, inline_threshold |-> CombineInlineThreshold]

\* mzz.translate(filename): the combined reference, with the inputs along the
\* concatenation dimension as the object holds them.
MzzTranslate(m) ==
    [concat_dims |-> m.concat_dims,
     along |-> [i \in 1..Len(m.path) |-> m.path[i].templates.u]]

Parts == 1..MaxFiles

Init ==
    /\ pc = "glob"
    /\ bucket \in (SUBSET Parts) \ {{}}
    /\ bad \in SUBSET bucket
    /\ flist = <<>>
    /\ reference = None
    /\ bag = <<>>
    /\ task = <<>>
    /\ worker = [w \in 1..NWorkers |-> 0]
    /\ results = <<>>
    /\ finished = <<>>
    /\ dicts = None
    /\ mzz = None
    /\ combined = None

\* flist = fs.glob(...)
GlobCell ==
    /\ pc = "glob"
    /\ flist' = Glob(bucket)
    /\ pc' = "prepend"
    /\ UNCHANGED <<bucket, bad, reference, bag, task, worker, results, finished,
                   dicts, mzz, combined>>

\* flist = ['s3://' + f for f in flist]
PrependCell ==
    /\ pc = "prepend"
    /\ flist' = [i \in 1..Len(flist) |-> PrependS3(flist[i])]
    /\ pc' = "single"
    /\ UNCHANGED <<bucket, bad, reference, bag, task, worker, results, finished,
                   dicts, mzz, combined>>

\* u = flist[0]; reference = SingleHdf5ToZarr(infile, u, inline_threshold=100).translate()
SingleReferenceCell ==
    /\ pc = "single"
    /\ reference' = IF Raises(flist[1]) THEN reference
                     ELSE SingleHdf5ToZarrTranslate(flist[1], flist[1], ExampleInlineThreshold)
    /\ pc' = "bag"
    /\ UNCHANGED <<bucket, bad, flist, bag, task, worker, results, finished,
                   dicts, mzz, combined>>

\* bag = db.from_sequence(flist, npartitions=len(flist)).map(gen_ref)
BagCell ==
    /\ pc = "bag"
    /\ bag' = from_sequence(flist, Len(flist))
    /\ task' = [p \in 1..Len(bag') |-> "pending"]
    /\ results' = [p \in 1..Len(bag') |-> <<>>]
    /\ pc' = "compute"
    /\ UNCHANGED <<bucket, bad, flist, reference, worker, finished, dicts, mzz, combined>>

\* bag.compute(): an idle worker takes a partition that has not run yet.
StartTask(w, p) ==
    /\ pc = "compute"
    /\ worker[w] = 0
    /\ p \in DOMAIN task
    /\ task[p] = "pending"
    /\ worker' = [worker EXCEPT ![w] = p]
    /\ task' = [task EXCEPT ![p] = "running"]
    /\ UNCHANGED <<pc, bucket, bad, flist, reference, bag, results, finished,
                   dicts, mzz, combined>>

\* bag.compute(): a worker finishes its partition.
FinishTask(w) ==
    /\ pc = "compute"
    /\ worker[w] # 0
    /\ \A k \in 1..Len(bag[worker[w]]) : ~Raises(bag[worker[w]][k])
    /\ LET p == worker[w]
       IN  /\ results' = [results EXCEPT ![p] = MapPartition(bag[p])]
           /\ task' = [task EXCEPT ![p] = "done"]
           /\ finished' = Append(finished, p)
    /\ worker' = [worker EXCEPT ![w] = 0]
    /\ UNCHANGED <<pc, bucket, bad, flist, reference, bag, dicts, mzz, combined>>

\* bag.compute(): gen_ref raises in a worker's partition; the partition has no
\* result.
FailTask(w) ==
    /\ pc = "compute"
    /\ worker[w] # 0
    /\ \E k \in 1..Len(bag[worker[w]]) : Raises(bag[worker[w]][k])
    /\ task' = [task EXCEPT ![worker[w]] = "error"]
    /\ finished' = Append(finished, worker[w])
    /\ worker' = [worker EXCEPT ![w] = 0]
    /\ UNCHANGED <<pc, bucket, bad, flist, reference, bag, results, dicts, mzz, combined>>

\* A compute that skips the partitions that raised and returns the rest.
ComputeSkipFailed ==
    /\ pc = "compute"
    /\ \E p \in DOMAIN task : task[p] = "error"
    /\ dicts' = Collect(results, finished)
    /\ pc' = "raised"
    /\ worker' = [w \in 1..NWorkers |-> 0]
    /\ UNCHANGED <<bucket, bad, flist, reference, bag, task, results, finished,
                   mzz, combined>>

\* dicts = bag.compute() raises the exception of a partition that failed: the
\* assignment does not take place and the cells that need dicts cannot run.
ComputeRaise ==
    /\ pc = "compute"
    /\ \E p \in DOMAIN task : task[p] = "error"
    /\ pc' = "raised"
    /\ worker' = [w \in 1..NWorkers |-> 0]
    /\ UNCHANGED <<bucket, bad, flist, reference, bag, task, results, finished,
                   dicts, mzz, combined>>

\* dicts = bag.compute(): returns once every partition is done.
ComputeReturn ==
    /\ pc = "compute"
    /\ \A p \in DOMAIN task : task[p] = "done"
    /\ dicts' = Collect(results, finished)
    /\ pc' = "mzz"
    /\ UNCHANGED <<bucket, bad, flist, reference, bag, task, worker, results,
                   finished, mzz, combined>>

\* mzz = MultiZarrToZarr(dicts, ...)
MzzCell ==
    /\ pc = "mzz"
    /\ mzz' = MultiZarrToZarr(dicts)
    /\ pc' = "translate"
    /\ UNCHANGED <<bucket, bad, flist, reference, bag, task, worker, results,
                   finished, dicts, combined>>

\* mzz.translate('./combined.json')
TranslateCell ==
    /\ pc = "translate"
    /\ combined' = MzzTranslate(mzz)
    /\ pc' = "done"
    /\ UNCHANGED <<bucket, bad, flist, reference, bag, task, worker, results,
                   finished, dicts, mzz>>

Next ==
    \/ GlobCell
    \/ PrependCell
    \/ SingleReferenceCell
    \/ BagCell
    \/ \E w \in 1..NWorkers, p \in Parts : StartTask(w, p)
    \/ \E w \in 1..NWorkers : FinishTask(w)
    \/ \E w \in 1..NWorkers : FailTask(w)
    \/ ComputeRaise
    \/ ComputeReturn
    \/ MzzCell
    \/ TranslateCell

Spec == Init /\ [][Next]_vars

\* C10: whatever order the workers complete the per-file builds in, the
\* combined reference written by the merge holds the files along the
\* concatenation dimension in the order of flist, a value that depends on
\* the file list alone.
C10_CombinedIndependentOfCompletion ==
    pc = "done" =>
        /\ combined.concat_dims = <<"t">>
        /\ combined.along = flist

\* C10 witness: the merge has run after builds that completed out of list order.
C10_Witness ==
    /\ pc = "done"
    /\ Len(finished) >= 2
    /\ \E i, j \in 1..Len(finished) : i < j /\ finished[i] > finished[j]

\* C13 as claimed: when the build of one file has raised, the builds of the
\* other files complete and the caller holds their dictionaries, ready to merge.
C13_RemainingMergeable ==
    (/\ pc \in {"raised", "done"}
     /\ \E p \in DOMAIN task : task[p] = "error"
     /\ \E p \in DOMAIN task : \A k \in 1..Len(bag[p]) : ~Raises(bag[p][k])) =>
        /\ dicts # None
        /\ \A p \in DOMAIN task :
              (\A k \in 1..Len(bag[p]) : ~Raises(bag[p][k])) => task[p] = "done"

\* C13 amended: a build that raises leaves the dictionaries already built for
\* the other files as gen_ref built them, but bag.compute() raises: dicts is
\* never bound, and no merge or combined.json follows.
C13_FailureRaisesCompute ==
    /\ \A p \in DOMAIN task : task[p] = "done" => results[p] = MapPartition(bag[p])
    /\ (\E p \in DOMAIN task : task[p] = "error") => pc \in {"compute", "raised"}
    /\ pc = "raised" => (dicts = None /\ mzz = None /\ combined = None)

\* C13 witness: compute has raised after one build failed and another completed.
C13_Witness ==
    /\ pc = "raised"
    /\ \E p \in DOMAIN task : task[p] = "error"
    /\ \E p \in DOMAIN task : task[p] = "done"

\* C14: once bag.compute() has returned, dicts holds exactly one dictionary
\* for each URL of flist, each built from its own URL, and every partition was
\* built exactly once, whatever the interleaving of the workers.
C14_OneDictPerUrl ==
    pc \in {"mzz", "translate", "done"} =>
        /\ Len(dicts) = Len(flist)
        /\ \A i \in 1..Len(flist) :
              Cardinality({k \in 1..Len(dicts) : dicts[k].templates.u = flist[i]}) = 1
        /\ \A k \in 1..Len(dicts) : dicts[k].infile = dicts[k].templates.u
        /\ \A p \in DOMAIN task :
              Cardinality({j \in 1..Len(finished) : finished[j] = p}) = 1

\* C14 witness: compute has just returned for several files whose builds ran
\* on both workers and completed out of list order.
C14_Witness ==
    /\ pc = "mzz"
    /\ Len(flist) = MaxFiles
    /\ finished[1] = Len(flist)

====
